---- MODULE Spec2Model ----
(***************************************************************************)
(* Model of the two-level semantic cache of ai_finance_assistant:          *)
(* src/src/utils/semantic_cache.py (SemanticCache, TwoLevelCache) as used  *)
(* by src/src/agents/finance_agent.py.                                     *)
(*                                                                         *)
(* Similarities are fixed-point numbers in units of 1/Scale; every query   *)
(* embedding of the model has an integer norm, so the fixed-point value of *)
(* dot / (norm1 * norm2) is exact.                                         *)
(***************************************************************************)
EXTENDS Integers, Sequences, FiniteSets, TLC

VARIABLES
    cache_data,          \* [store -> [key -> payload or None]]   self.cache_data
    cache_queries,       \* [store -> Seq(query)]                 self.cache_queries
    cache_embeddings,    \* [store -> Seq(vector)]                self.cache_embeddings
    hits,                \* [store -> Nat]                        self.hits
    misses,              \* [store -> Nat]                        self.misses
    total_queries,       \* [store -> Nat]                        self.total_queries
    cache_file,          \* [store -> file]   <cache_dir>/<cache_name>.json
    cache_vectors_file,  \* [store -> file]   <cache_dir>/<cache_name>_vectors.npy
    calls,               \* [store -> [get, hit, miss]] get calls made on / answered by the live object
    faults,              \* file-system operations that have failed so far
    rag_enabled,         \* finance_agent.py: rag_enabled (the vector store was loaded)
    EVALUATION_ENABLED,  \* finance_agent.py: EVALUATION_ENABLED and eval_runner
    trace,               \* what the last call of finance_agent did and returned
    threads,             \* [thread -> frame of its call of rag_cache.get]
    cache,               \* [key -> entry or None]     market_cache.cache
    ttl_seconds,         \* market_cache.ttl_seconds
    now,                 \* time.time(), in seconds
    latest,              \* [tool, arguments -> the last set made for them, or None]
    is_running,          \* async_feedback.is_running
    worker_thread,       \* async_feedback.worker_thread
    workers,             \* [thread -> [pc, task]]     the threads start() has created
    queue,               \* async_feedback.queue
    queued,              \* tasks put on the queue so far
    processed,           \* the tasks processed, in the order their processing ended
    caller               \* where the thread calling start and stop is

market_vars == <<cache, ttl_seconds, now, latest>>

feedback_vars == <<is_running, worker_thread, workers, queue, queued, processed, caller>>

vars == <<cache_data, cache_queries, cache_embeddings, hits, misses, total_queries,
          cache_file, cache_vectors_file, calls, faults,
          rag_enabled, EVALUATION_ENABLED, trace, threads, market_vars, feedback_vars>>

(***************************************************************************)
(* Bounds of the model.                                                    *)
(***************************************************************************)
MaxIndex == 2      \* most entries of the payload map and of the index explored
MaxFaults == 1     \* most failing file-system operations explored
MaxQueries == 2    \* most get calls per live store object explored
MaxAccess == 2     \* largest access_count explored
MaxTtl == 2        \* largest ttl_seconds explored
MaxTime == 3       \* seconds of clock explored
MaxSets == 2       \* most tool calls with a live market_cache.set explored
MaxTasks == 2      \* most feedback tasks queued

(***************************************************************************)
(* Program constants and input domains.                                    *)
(***************************************************************************)
Scale == 10000
RagThreshold == 9500
LlmThreshold == 9200

Stores == {"rag", "llm"}
Queries == {"qa", "qb", "qc"}
Values == {"v1", "v2"}

\* embeddings.embed_query on the model's query texts: qb is equally close
\* (0.96) to qa and to qc, and qa, qc are 0.8432 apart.
Embed == [q \in Queries |->
            CASE q = "qa" -> <<24, 7>>
              [] q = "qb" -> <<25, 0>>
              [] q = "qc" -> <<24, -7>>]

\* hashlib.md5(query.encode()).hexdigest(): one digest per query text.
generate_cache_key(query) ==
    CASE query = "qa" -> "md5_a"
      [] query = "qb" -> "md5_b"
      [] query = "qc" -> "md5_c"

Keys == {generate_cache_key(q) : q \in Queries}

None == [none |-> TRUE]

\* a str object, as opposed to None
Text(x) == [text |-> x]

similarity_threshold(s) == IF s = "rag" THEN RagThreshold ELSE LlmThreshold

\* thresholds a SemanticCache may be constructed with: the two of the
\* program, and two around the similarity 0.96 of the model's near queries
Thresholds == {LlmThreshold, RagThreshold, 9600, 9700}

(***************************************************************************)
(* Files.  The payload-map file is a JSON object (a set of members), the   *)
(* vector file a pickled dict of two lists.                                *)
(***************************************************************************)
NoVectors == [queries |-> <<>>, embeddings |-> <<>>]
AbsentJson == [st |-> "absent", members |-> {}]
CorruptJson == [st |-> "corrupt", members |-> {}]
AbsentNpy == [st |-> "absent", dict |-> NoVectors]
CorruptNpy == [st |-> "corrupt", dict |-> NoVectors]

json_dump(data) ==
    [st |-> "ok", members |-> {<<k, data[k]>> : k \in {x \in Keys : data[x] # None}}]

json_load(file) ==
    [k \in Keys |-> IF \E m \in file.members : m[1] = k
                    THEN (CHOOSE m \in file.members : m[1] = k)[2]
                    ELSE None]

np_save(queries, embeddings) ==
    [st |-> "ok", dict |-> [queries |-> queries, embeddings |-> embeddings]]

EmptyData == [k \in Keys |-> None]

len(data) == Cardinality({k \in Keys : data[k] # None})

(***************************************************************************)
(* Payloads.  TwoLevelCache stores {"query", "context" | "response",       *)
(* "token_stats"}; val stands for the context or response text and         *)
(* cache_hit for token_stats["cache_hit"].  set stamps timestamp and       *)
(* access_count; update_access sets last_accessed.                         *)
(***************************************************************************)
Payload(query, val) == [query |-> query, val |-> val, cache_hit |-> FALSE]

stamp(data) ==
    [query |-> data.query, val |-> data.val, cache_hit |-> data.cache_hit,
     timestamp |-> "now", access_count |-> 1, last_accessed |-> "unset"]

(***************************************************************************)
(* A SemanticCache object as a record of its fields.                       *)
(***************************************************************************)
Dot(a, b) == a[1] * b[1] + a[2] * b[2]

Abs(x) == IF x < 0 THEN -x ELSE x

Max(a, b) == IF a >= b THEN a ELSE b

\* np.linalg.norm on the model's vectors (all of integer norm)
Norm(v) ==
    CHOOSE n \in Max(Abs(v[1]), Abs(v[2]))..(Abs(v[1]) + Abs(v[2])) : n * n = Dot(v, v)

cosine_similarity(vec1, vec2) ==
    LET dot_product == Dot(vec1, vec2)
        norm1 == Norm(vec1)
        norm2 == Norm(vec2)
    IN  IF norm1 = 0 \/ norm2 = 0 THEN 0
        ELSE (dot_product * Scale) \div (norm1 * norm2)

\* a scan in which a later equal similarity replaces the earlier one
RECURSIVE most_similar_last(_, _, _, _, _)
most_similar_last(query_embedding, embeddings, idx, max_similarity, most_similar_idx) ==
    IF idx > Len(embeddings)
    THEN [max_similarity |-> max_similarity, most_similar_idx |-> most_similar_idx]
    ELSE LET similarity == cosine_similarity(query_embedding, embeddings[idx])
         IN  IF similarity >= max_similarity
             THEN most_similar_last(query_embedding, embeddings, idx + 1, similarity, idx)
             ELSE most_similar_last(query_embedding, embeddings, idx + 1,
                                    max_similarity, most_similar_idx)

\* the scan of get: idx runs over cache_embeddings, first strict maximum wins
RECURSIVE most_similar(_, _, _, _, _)
most_similar(query_embedding, embeddings, idx, max_similarity, most_similar_idx) ==
    IF idx > Len(embeddings)
    THEN [max_similarity |-> max_similarity, most_similar_idx |-> most_similar_idx]
    ELSE LET similarity == cosine_similarity(query_embedding, embeddings[idx])
         IN  IF similarity > max_similarity
             THEN most_similar(query_embedding, embeddings, idx + 1, similarity, idx)
             ELSE most_similar(query_embedding, embeddings, idx + 1,
                               max_similarity, most_similar_idx)

\* a threshold test that is the wrong way round
is_hit_below(max_similarity, threshold) == max_similarity <= threshold

\* the threshold test of get: equality is a hit
is_hit(max_similarity, threshold) == max_similarity >= threshold

\* a miss that is returned without being counted
Miss_uncounted(S) == [S |-> S, hit |-> FALSE, data |-> None]

Miss(S) == [S |-> [S EXCEPT !.misses = @ + 1], hit |-> FALSE, data |-> None]

Hit(S, cached_data) ==
    [S |-> [S EXCEPT !.hits = @ + 1], hit |-> TRUE, data |-> cached_data]

\* a get that counts a hit when the best match has no payload
get_hit_without_payload(S0, query, embed_ok) ==
    LET S == [S0 EXCEPT !.total_queries = @ + 1]
    IN  IF len(S.cache_data) = 0 THEN Miss(S)
        ELSE IF ~embed_ok THEN Miss(S)
        ELSE LET r == most_similar(Embed[query], S.cache_embeddings, 1, 0, -1)
             IN  IF r.most_similar_idx = -1 THEN Miss(S)
                 ELSE IF r.most_similar_idx > Len(S.cache_queries) THEN Miss(S)
                 ELSE IF is_hit(r.max_similarity, S.similarity_threshold)
                      THEN Hit(S, S.cache_data[generate_cache_key(
                                        S.cache_queries[r.most_similar_idx])])
                      ELSE Miss(S)

\* a get whose except branch returns the miss without counting it
get_failure_uncounted(S0, query, embed_ok) ==
    LET S == [S0 EXCEPT !.total_queries = @ + 1]
    IN  IF len(S.cache_data) = 0 THEN Miss(S)
        ELSE IF ~embed_ok THEN [S |-> S, hit |-> FALSE, data |-> None]
        ELSE LET r == most_similar(Embed[query], S.cache_embeddings, 1, 0, -1)
             IN  IF r.most_similar_idx = -1 THEN Miss(S)
                 ELSE IF r.most_similar_idx > Len(S.cache_queries) THEN Miss(S)
                 ELSE LET cached_data ==
                              S.cache_data[generate_cache_key(S.cache_queries[r.most_similar_idx])]
                      IN  IF is_hit(r.max_similarity, S.similarity_threshold)
                             /\ cached_data # None
                          THEN Hit(S, cached_data)
                          ELSE Miss(S)

\* a get that records the access on the entry it returns
get_recording_access(S0, query, embed_ok) ==
    LET S == [S0 EXCEPT !.total_queries = @ + 1]
    IN  IF len(S.cache_data) = 0 THEN Miss(S)
        ELSE IF ~embed_ok THEN Miss(S)
        ELSE LET r == most_similar(Embed[query], S.cache_embeddings, 1, 0, -1)
             IN  IF r.most_similar_idx = -1 THEN Miss(S)
                 ELSE IF r.most_similar_idx > Len(S.cache_queries) THEN Miss(S)
                 ELSE LET cache_key == generate_cache_key(S.cache_queries[r.most_similar_idx])
                          cached_data == S.cache_data[cache_key]
                      IN  IF is_hit(r.max_similarity, S.similarity_threshold)
                             /\ cached_data # None
                          THEN Hit([S EXCEPT !.cache_data[cache_key].access_count = @ + 1],
                                   cached_data)
                          ELSE Miss(S)

\* SemanticCache.get; embed_ok = FALSE is embed_query raising
get(S0, query, embed_ok) ==
    LET S == [S0 EXCEPT !.total_queries = @ + 1]
    IN  IF len(S.cache_data) = 0 THEN Miss(S)
        ELSE IF ~embed_ok THEN Miss(S)
        ELSE LET r == most_similar(Embed[query], S.cache_embeddings, 1, 0, -1)
             IN  IF r.most_similar_idx = -1 THEN Miss(S)
                 ELSE IF r.most_similar_idx > Len(S.cache_queries) THEN Miss(S)
                 ELSE LET most_similar_query == S.cache_queries[r.most_similar_idx]
                          cache_key == generate_cache_key(most_similar_query)
                          cached_data == S.cache_data[cache_key]
                      IN  IF is_hit(r.max_similarity, S.similarity_threshold)
                             /\ cached_data # None
                          THEN Hit(S, cached_data)
                          ELSE Miss(S)

SaveOutcomes == {"ok", "json_open_fails", "json_write_fails",
                 "npy_open_fails", "npy_write_fails"}

\* a save that writes the payload map and never the vectors
save_cache_without_vectors(S, sv) ==
    CASE sv = "json_open_fails" -> S
      [] sv = "json_write_fails" -> [S EXCEPT !.cache_file = CorruptJson]
      [] OTHER -> [S EXCEPT !.cache_file = json_dump(S.cache_data)]

\* a save that undoes the insert of the last entry when a write fails
save_cache_rolling_back(S, sv) ==
    IF sv = "ok"
    THEN [S EXCEPT !.cache_file = json_dump(S.cache_data),
                   !.cache_vectors_file = np_save(S.cache_queries, S.cache_embeddings)]
    ELSE [S EXCEPT !.cache_data[generate_cache_key(S.cache_queries[Len(S.cache_queries)])] = None,
                   !.cache_queries = SubSeq(@, 1, Len(@) - 1),
                   !.cache_embeddings = SubSeq(@, 1, Len(@) - 1)]

\* SemanticCache._save_cache: the payload map first, the vectors second;
\* a failing write is logged and leaves what was written so far
save_cache(S, sv) ==
    CASE sv = "json_open_fails" -> S
      [] sv = "json_write_fails" -> [S EXCEPT !.cache_file = CorruptJson]
      [] sv = "npy_open_fails" -> [S EXCEPT !.cache_file = json_dump(S.cache_data)]
      [] sv = "npy_write_fails" ->
            [S EXCEPT !.cache_file = json_dump(S.cache_data),
                      !.cache_vectors_file = CorruptNpy]
      [] OTHER ->
            [S EXCEPT !.cache_file = json_dump(S.cache_data),
                      !.cache_vectors_file = np_save(S.cache_queries, S.cache_embeddings)]

\* a set that appends the query text and puts its embedding first
set_embedding_first(S, query, data, embed_ok, sv) ==
    LET cache_key == generate_cache_key(query)
    IN  IF S.cache_data[cache_key] # None THEN S
        ELSE LET S1 == [S EXCEPT !.cache_data[cache_key] = stamp(data)]
             IN  IF ~embed_ok THEN S1
                 ELSE save_cache([S1 EXCEPT
                                    !.cache_queries = Append(@, query),
                                    !.cache_embeddings = <<Embed[query]>> \o @], sv)

\* a set that makes room by dropping the oldest entry of a non-empty index
set_evicting_oldest(S, query, data, embed_ok, sv) ==
    LET cache_key == generate_cache_key(query)
        oldest == generate_cache_key(S.cache_queries[1])
        S0 == IF S.cache_queries = <<>> THEN S
              ELSE [S EXCEPT !.cache_data[oldest] = None,
                             !.cache_queries = Tail(@),
                             !.cache_embeddings = Tail(@)]
    IN  IF S.cache_data[cache_key] # None THEN S
        ELSE LET S1 == [S0 EXCEPT !.cache_data[cache_key] = stamp(data)]
             IN  IF ~embed_ok THEN S1
                 ELSE save_cache([S1 EXCEPT
                                    !.cache_queries = Append(@, query),
                                    !.cache_embeddings = Append(@, Embed[query])], sv)

\* a set that overwrites the payload of a key already present
set_overwrite(S, query, data, embed_ok, sv) ==
    LET cache_key == generate_cache_key(query)
        S1 == [S EXCEPT !.cache_data[cache_key] = stamp(data)]
    IN  IF S.cache_data[cache_key] # None THEN save_cache(S1, sv)
        ELSE IF ~embed_ok THEN S1
        ELSE save_cache([S1 EXCEPT
                           !.cache_queries = Append(@, query),
                           !.cache_embeddings = Append(@, Embed[query])], sv)

\* SemanticCache.set
set(S, query, data, embed_ok, sv) ==
    LET cache_key == generate_cache_key(query)
    IN  IF S.cache_data[cache_key] # None THEN S
        ELSE LET S1 == [S EXCEPT !.cache_data[cache_key] = stamp(data)]
             IN  IF ~embed_ok THEN S1
                 ELSE save_cache([S1 EXCEPT
                                    !.cache_queries = Append(@, query),
                                    !.cache_embeddings = Append(@, Embed[query])], sv)

WriteOutcomes == {"ok", "json_open_fails", "json_write_fails"}

\* an update_access that persists with the full save of both files
update_access_by_full_save(S, cached_data, w) ==
    IF cached_data = None THEN S
    ELSE LET cache_key == generate_cache_key(cached_data.query)
         IN  IF S.cache_data[cache_key] = None THEN S
             ELSE save_cache([S EXCEPT !.cache_data[cache_key].access_count = @ + 1,
                                       !.cache_data[cache_key].last_accessed = "now"], w)

\* SemanticCache.update_access
update_access(S, cached_data, w) ==
    IF cached_data = None THEN S
    ELSE LET cache_key == generate_cache_key(cached_data.query)
         IN  IF S.cache_data[cache_key] = None THEN S
             ELSE LET S1 == [S EXCEPT !.cache_data[cache_key].access_count = @ + 1,
                                      !.cache_data[cache_key].last_accessed = "now"]
                  IN  CASE w = "json_open_fails" -> S1
                        [] w = "json_write_fails" -> [S1 EXCEPT !.cache_file = CorruptJson]
                        [] OTHER -> [S1 EXCEPT !.cache_file = json_dump(S1.cache_data)]

\* SemanticCache.get_stats; hit_rate in units of 1/RateScale
RateScale == 1000

\* statistics whose hit_rate is the plain ratio hits / total_queries
get_stats_ratio(S) ==
    [total_queries |-> S.total_queries,
     cache_hits |-> S.hits,
     cache_misses |-> S.misses,
     hit_rate |-> IF S.total_queries > 0
                  THEN (S.hits * RateScale) \div S.total_queries
                  ELSE 0,
     cache_size |-> len(S.cache_data)]

get_stats(S) ==
    [total_queries |-> S.total_queries,
     cache_hits |-> S.hits,
     cache_misses |-> S.misses,
     hit_rate |-> IF S.total_queries > 0
                  THEN (S.hits * 100 * RateScale) \div S.total_queries
                  ELSE 0,
     cache_size |-> len(S.cache_data)]

RemoveOutcomes == {"ok", "first_fails", "second_fails"}

\* a clear that resets the object and leaves the files on disk
clear_memory_only(S, rm) ==
    [S |-> [S EXCEPT !.cache_data = EmptyData, !.cache_queries = <<>>,
                     !.cache_embeddings = <<>>, !.hits = 0, !.misses = 0,
                     !.total_queries = 0],
     raised |-> FALSE]

\* SemanticCache.clear: os.remove raising is not caught
clear(S, rm) ==
    LET S1 == [S EXCEPT !.cache_data = EmptyData, !.cache_queries = <<>>,
                        !.cache_embeddings = <<>>, !.hits = 0, !.misses = 0,
                        !.total_queries = 0]
        has1 == S.cache_file.st # "absent"
        has2 == S.cache_vectors_file.st # "absent"
    IN  IF has1 /\ rm = "first_fails" THEN [S |-> S1, raised |-> TRUE]
        ELSE LET S2 == [S1 EXCEPT !.cache_file = AbsentJson]
             IN  IF has2 /\ rm # "ok" THEN [S |-> S2, raised |-> TRUE]
                 ELSE [S |-> [S2 EXCEPT !.cache_vectors_file = AbsentNpy],
                       raised |-> FALSE]

\* a load that keeps the payload map read before the vector file failed
load_cache_keeps_map(S) ==
    LET Empty == [S EXCEPT !.cache_data = EmptyData, !.cache_queries = <<>>,
                           !.cache_embeddings = <<>>]
    IN  IF S.cache_file.st = "corrupt" THEN Empty
        ELSE LET S1 == [S EXCEPT !.cache_data =
                            IF S.cache_file.st = "ok" THEN json_load(S.cache_file)
                            ELSE EmptyData]
             IN  IF S.cache_vectors_file.st = "ok"
                 THEN [S1 EXCEPT !.cache_queries = S.cache_vectors_file.dict.queries,
                                 !.cache_embeddings = S.cache_vectors_file.dict.embeddings]
                 ELSE [S1 EXCEPT !.cache_queries = <<>>, !.cache_embeddings = <<>>]

\* SemanticCache._load_cache: any exception empties all three structures
load_cache(S) ==
    LET Empty == [S EXCEPT !.cache_data = EmptyData, !.cache_queries = <<>>,
                           !.cache_embeddings = <<>>]
    IN  IF S.cache_file.st = "corrupt" THEN Empty
        ELSE LET S1 == [S EXCEPT !.cache_data =
                            IF S.cache_file.st = "ok" THEN json_load(S.cache_file)
                            ELSE EmptyData]
             IN  CASE S.cache_vectors_file.st = "corrupt" -> Empty
                   [] S.cache_vectors_file.st = "ok" ->
                        [S1 EXCEPT !.cache_queries = S.cache_vectors_file.dict.queries,
                                   !.cache_embeddings = S.cache_vectors_file.dict.embeddings]
                   [] OTHER -> [S1 EXCEPT !.cache_queries = <<>>,
                                          !.cache_embeddings = <<>>]

\* SemanticCache.__init__ over the files found in cache_dir
construct(threshold, jsonf, npyf) ==
    load_cache([similarity_threshold |-> threshold,
                cache_file |-> jsonf, cache_vectors_file |-> npyf,
                hits |-> 0, misses |-> 0, total_queries |-> 0,
                cache_queries |-> <<>>, cache_embeddings |-> <<>>,
                cache_data |-> EmptyData])

(***************************************************************************)
(* The live objects: TwoLevelCache.rag_cache and TwoLevelCache.llm_cache.  *)
(***************************************************************************)
Store(s) ==
    [similarity_threshold |-> similarity_threshold(s),
     cache_file |-> cache_file[s], cache_vectors_file |-> cache_vectors_file[s],
     hits |-> hits[s], misses |-> misses[s], total_queries |-> total_queries[s],
     cache_queries |-> cache_queries[s], cache_embeddings |-> cache_embeddings[s],
     cache_data |-> cache_data[s]]

\* the objects after an operation: New maps each store to its record
Install(New) ==
    \E N \in {New} :
        /\ cache_data' = [s \in Stores |-> N[s].cache_data]
        /\ cache_queries' = [s \in Stores |-> N[s].cache_queries]
        /\ cache_embeddings' = [s \in Stores |-> N[s].cache_embeddings]
        /\ hits' = [s \in Stores |-> N[s].hits]
        /\ misses' = [s \in Stores |-> N[s].misses]
        /\ total_queries' = [s \in Stores |-> N[s].total_queries]
        /\ cache_file' = [s \in Stores |-> N[s].cache_file]
        /\ cache_vectors_file' = [s \in Stores |-> N[s].cache_vectors_file]

Only(s, S) == [x \in Stores |-> IF x = s THEN S ELSE Store(x)]

NoCalls == [get |-> 0, hit |-> 0, miss |-> 0]

Counted(s, hit) ==
    [calls EXCEPT ![s] = [get |-> @.get + 1,
                          hit |-> @.hit + (IF hit THEN 1 ELSE 0),
                          miss |-> @.miss + (IF hit THEN 0 ELSE 1)]]

\* whether a file-system outcome may be drawn: failures are bounded
Allowed(outcome) == outcome = "ok" \/ faults < MaxFaults

Fault(happened) == faults' = faults + (IF happened THEN 1 ELSE 0)

\* finance_agent has not been called
NoTrace ==
    [ran |-> FALSE, llm_hit |-> FALSE, cached_response |-> None,
     rag_hit |-> FALSE, retrieved |-> FALSE, steps |-> <<>>, reply |-> None]

Threads == {"t1", "t2"}

\* a thread that is not inside get
IdleFrame == [pc |-> "idle", query |-> None, embed_ok |-> TRUE, reg |-> 0, outcome |-> None]

\* a first process on an empty cache_dir: both stores constructed, no call made
InitStores ==
    /\ cache_data = [s \in Stores |-> EmptyData]
    /\ cache_queries = [s \in Stores |-> <<>>]
    /\ cache_embeddings = [s \in Stores |-> <<>>]
    /\ hits = [s \in Stores |-> 0]
    /\ misses = [s \in Stores |-> 0]
    /\ total_queries = [s \in Stores |-> 0]
    /\ cache_file = [s \in Stores |-> AbsentJson]
    /\ cache_vectors_file = [s \in Stores |-> AbsentNpy]
    /\ calls = [s \in Stores |-> NoCalls]
    /\ faults = 0
    /\ trace = NoTrace
    /\ threads = [t \in Threads |-> IdleFrame]

\* the process imported finance_agent with the vector store and the
\* evaluation package present
(***************************************************************************)
(* tools/cache.py: MarketDataCache.  A string is the sequence of its        *)
(* pieces; keyword arguments are the sequence of <<name, value>> pairs in   *)
(* the order of the call.                                                   *)
(***************************************************************************)
Tools == {"get_market_data", "get_stock_news"}

MarketData == {"d1", "d2"}

Items == {<<"symbol", <<"A">>>>,
          <<"period", <<"1d">>>>,
          <<"period", <<"1d", "_", "symbol", "=", "A">>>>}

Kwargs ==
    {<<>>} \cup {<<i>> : i \in Items}
           \cup {p \in {<<i, j>> : i \in Items, j \in Items} : p[1][1] # p[2][1]}

\* the keyword arguments as Python's dict of them
Dict(kwargs) == {kwargs[i] : i \in 1..Len(kwargs)}

Dicts == {Dict(kw) : kw \in Kwargs}

\* the order of str on the names
Before(a, b) == a = "period" /\ b = "symbol"

RECURSIVE sorted(_)
\* sorted(kwargs.items()): names are distinct, so values are never compared
sorted(items) ==
    IF Len(items) <= 1 THEN items
    ELSE LET rest == sorted(Tail(items))
             smaller == SelectSeq(rest, LAMBDA x : Before(x[1], Head(items)[1]))
             larger == SelectSeq(rest, LAMBDA x : ~Before(x[1], Head(items)[1]))
         IN  smaller \o <<Head(items)>> \o larger

RECURSIVE join(_)
\* "_".join(f"{k}={v}" for k, v in items)
join(items) ==
    IF Len(items) = 0 THEN <<>>
    ELSE IF Len(items) = 1 THEN <<items[1][1], "=">> \o items[1][2]
    ELSE <<items[1][1], "=">> \o items[1][2] \o <<"_">> \o join(Tail(items))

\* MarketDataCache._generate_key
generate_key(tool_name, kwargs) == <<tool_name, ":">> \o join(sorted(kwargs))

MarketKeys == {generate_key(t, kw) : t \in Tools, kw \in Kwargs}

EmptyCache == [k \in MarketKeys |-> None]

NoSets == [c \in Tools \X Dicts |-> None]

\* MarketDataCache.get at time t
market_cache_get(C, ttl, t, tool_name, kwargs) ==
    LET key == generate_key(tool_name, kwargs)
    IN  IF C[key] # None
        THEN LET age == t - C[key].timestamp
             IN  IF age < ttl
                 THEN [cache |-> C, result |-> Text(C[key].data)]
                 ELSE [cache |-> [C EXCEPT ![key] = None], result |-> None]
        ELSE [cache |-> C, result |-> None]

\* MarketDataCache.set at time t
market_cache_set(C, t, tool_name, data, kwargs) ==
    [C EXCEPT ![generate_key(tool_name, kwargs)] = [data |-> data, timestamp |-> t]]

\* MarketDataCache.clear
market_cache_clear(C) == EmptyCache

\* MarketDataCache.get_stats at time t
market_cache_get_stats(C, ttl, t) ==
    LET total == Cardinality({k \in MarketKeys : C[k] # None})
        valid_entries ==
            Cardinality({k \in MarketKeys : C[k] # None /\ (t - C[k].timestamp) < ttl})
    IN  [total_entries |-> total,
         valid_entries |-> valid_entries,
         expired_entries |-> total - valid_entries,
         ttl_seconds |-> ttl]

\* MarketDataCache(ttl_seconds=ttl)
InitMarket(ttl) ==
    /\ cache = EmptyCache
    /\ ttl_seconds = ttl
    /\ now = 0
    /\ latest = NoSets

(***************************************************************************)
(* feedback/async_feedback.py: AsyncFeedbackProcessor.                      *)
(***************************************************************************)
Workers == {"w1", "w2"}

Unstarted == [pc |-> "unstarted", task |-> None]

\* AsyncFeedbackProcessor()
InitFeedback ==
    /\ is_running = FALSE
    /\ worker_thread = None
    /\ workers = [w \in Workers |-> Unstarted]
    /\ queue = <<>>
    /\ queued = 0
    /\ processed = <<>>
    /\ caller = "idle"

Init ==
    /\ InitStores
    /\ rag_enabled = TRUE
    /\ EVALUATION_ENABLED = TRUE
    /\ InitMarket(MaxTtl)
    /\ InitFeedback

\* the caller of the cache takes no part in a step
CallerIdle == UNCHANGED <<rag_enabled, EVALUATION_ENABLED, trace, threads,
                          market_vars, feedback_vars>>

\* SemanticCache.get on either store (TwoLevelCache.get_rag_context on "rag")
Get(s, query, embed_ok) ==
    /\ total_queries[s] < MaxQueries
    /\ \E r \in {get(Store(s), query, embed_ok)} :
           /\ Install(Only(s, r.S))
           /\ calls' = Counted(s, r.hit)
           /\ UNCHANGED faults
           /\ CallerIdle

\* TwoLevelCache.get_llm_response: get, then update_access on a hit
get_llm_response(query, embed_ok, w) ==
    /\ total_queries["llm"] < MaxQueries
    /\ \E r \in {get(Store("llm"), query, embed_ok)} :
           /\ r.hit => r.data.access_count < MaxAccess
           /\ IF r.hit THEN Allowed(w) /\ Fault(w # "ok")
              ELSE w = "ok" /\ UNCHANGED faults
           /\ Install(Only("llm", IF r.hit THEN update_access(r.S, r.data, w) ELSE r.S))
           /\ calls' = Counted("llm", r.hit)
           /\ CallerIdle

\* SemanticCache.set with the payloads of set_rag_context / set_llm_response
Set(s, query, val, embed_ok, sv) ==
    LET present == cache_data[s][generate_cache_key(query)] # None
        stores == ~present /\ embed_ok
    IN  /\ present \/ (Len(cache_queries[s]) < MaxIndex /\ len(cache_data[s]) < MaxIndex)
        /\ IF stores THEN Allowed(sv) /\ Fault(sv # "ok")
           ELSE sv = "ok" /\ UNCHANGED faults
        /\ Install(Only(s, set(Store(s), query, Payload(query, val), embed_ok, sv)))
        /\ UNCHANGED calls
        /\ CallerIdle

\* SemanticCache.update_access with a payload naming query
UpdateAccess(s, query, w) ==
    LET entry == cache_data[s][generate_cache_key(query)]
    IN  /\ entry # None => entry.access_count < MaxAccess
        /\ IF entry # None THEN Allowed(w) /\ Fault(w # "ok")
           ELSE w = "ok" /\ UNCHANGED faults
        /\ Install(Only(s, update_access(Store(s), Payload(query, "v1"), w)))
        /\ UNCHANGED calls
        /\ CallerIdle

\* TwoLevelCache.get_rag_context
get_rag_context(query, embed_ok) == Get("rag", query, embed_ok)

\* a set_rag_context that inserts into the response layer
set_rag_context_into_llm(query, context, embed_ok, sv) ==
    Set("llm", query, context, embed_ok, sv)

\* TwoLevelCache.set_rag_context
set_rag_context(query, context, embed_ok, sv) ==
    Set("rag", query, context, embed_ok, sv)

\* TwoLevelCache.set_llm_response
set_llm_response(query, response, embed_ok, sv) ==
    Set("llm", query, response, embed_ok, sv)

Scopes == {"all", "rag", "llm"}

\* a clear that clears both layers whatever the scope
Clear_every_layer(cache_type, rm_rag, rm_llm) ==
    /\ rm_rag = "ok" /\ rm_llm = "ok"
    /\ Install([s \in Stores |-> clear(Store(s), "ok").S])
    /\ calls' = [s \in Stores |-> NoCalls]
    /\ UNCHANGED faults
    /\ CallerIdle

\* TwoLevelCache.clear(cache_type); an os.remove that raises ends the call
Clear(cache_type, rm_rag, rm_llm) ==
    LET r1 == IF cache_type \in {"all", "rag"} THEN clear(Store("rag"), rm_rag)
              ELSE [S |-> Store("rag"), raised |-> FALSE]
        r2 == IF cache_type \in {"all", "llm"} /\ ~r1.raised
              THEN clear(Store("llm"), rm_llm)
              ELSE [S |-> Store("llm"), raised |-> FALSE]
        done == [s \in Stores |->
                    IF s = "rag" THEN cache_type \in {"all", "rag"}
                    ELSE cache_type \in {"all", "llm"} /\ ~r1.raised]
    IN  /\ Allowed(rm_rag) /\ Allowed(rm_llm)
        /\ rm_rag # "ok" => r1.raised
        /\ rm_llm # "ok" => r2.raised
        /\ Fault(r1.raised \/ r2.raised)
        /\ Install([s \in Stores |-> IF s = "rag" THEN r1.S ELSE r2.S])
        /\ calls' = [s \in Stores |-> IF done[s] THEN NoCalls ELSE calls[s]]
        /\ CallerIdle

\* a new process: TwoLevelCache.__init__ constructs both stores from cache_dir
Restart ==
    /\ Install([s \in Stores |->
                  construct(similarity_threshold(s), cache_file[s], cache_vectors_file[s])])
    /\ calls' = [s \in Stores |-> NoCalls]
    /\ UNCHANGED faults
    /\ CallerIdle

\* one SemanticCache object in use: the context layer's rag_cache
Next ==
    \/ \E q \in Queries, ok \in BOOLEAN : Get("rag", q, ok)
    \/ \E q \in Queries, v \in Values, ok \in BOOLEAN, sv \in SaveOutcomes :
          Set("rag", q, v, ok, sv)
    \/ \E q \in Queries, w \in WriteOutcomes : UpdateAccess("rag", q, w)
    \/ \E rm \in RemoveOutcomes : Clear("rag", rm, "ok")
    \/ Restart

Spec == Init /\ [][Next]_vars

\* the inputs of the two-layer exploration: two similar queries, one text,
\* an embedding provider that answers (its failures are explored in Spec)
LayerQueries == {"qa", "qb"}
LayerValues == {"v1"}
LayerEmbedOk == {TRUE}

\* the TwoLevelCache in use: both layers
NextLayers ==
    \/ \E q \in LayerQueries, ok \in LayerEmbedOk : get_rag_context(q, ok)
    \/ \E q \in LayerQueries, v \in LayerValues, ok \in LayerEmbedOk, sv \in SaveOutcomes :
          set_rag_context(q, v, ok, sv)
    \/ \E q \in LayerQueries, ok \in LayerEmbedOk, w \in WriteOutcomes :
          get_llm_response(q, ok, w)
    \/ \E q \in LayerQueries, v \in LayerValues, ok \in LayerEmbedOk, sv \in SaveOutcomes :
          set_llm_response(q, v, ok, sv)
    \/ \E c \in Scopes, r1 \in RemoveOutcomes, r2 \in RemoveOutcomes : Clear(c, r1, r2)
    \/ Restart

SpecLayers == Init /\ [][NextLayers]_vars

(***************************************************************************)
(* The caller: finance_agent and FinanceRAG of agents/finance_agent.py.    *)
(* env holds what the environment answers during one call: whether each    *)
(* embed_query succeeds, the outcome of each file write, whether the       *)
(* vector-store search succeeds, the context it finds and the text the     *)
(* LLM generates.                                                          *)
(***************************************************************************)
\* FinanceRAG.get_cached_response, that is TwoLevelCache.get_llm_response
get_cached_response(S, query, embed_ok, w) ==
    LET r == get(S, query, embed_ok)
    IN  IF r.hit
        THEN [S |-> update_access(r.S, r.data, w), cache_hit |-> TRUE,
              response |-> Text(r.data.val)]
        ELSE [S |-> r.S, cache_hit |-> FALSE, response |-> None]

\* FinanceRAG.retrieve with the vector store loaded; on a hit it sets
\* token_stats["cache_hit"] of the payload object held by the store
retrieve(S, query, env) ==
    LET r == get(S, query, env.rag_embed_ok)
    IN  IF r.hit
        THEN [S |-> [r.S EXCEPT
                       !.cache_data[generate_cache_key(r.data.query)].cache_hit = TRUE],
              context |-> r.data.val, cache_hit |-> TRUE, retrieved |-> FALSE,
              saved |-> FALSE, steps |-> <<"get_rag_context">>]
        ELSE IF ~env.search_ok
        THEN [S |-> r.S, context |-> "", cache_hit |-> FALSE, retrieved |-> FALSE,
              saved |-> FALSE, steps |-> <<"get_rag_context", "similarity_search">>]
        ELSE [S |-> set(r.S, query, Payload(query, env.context), env.rag_set_ok, env.rag_sv),
              context |-> env.context, cache_hit |-> FALSE, retrieved |-> TRUE,
              saved |-> r.S.cache_data[generate_cache_key(query)] = None /\ env.rag_set_ok,
              steps |-> <<"get_rag_context", "similarity_search", "set_rag_context">>]

\* finance_agent(state) on the caches T = [rag, llm] of finance_rag.cache.
\* The block that queues the evaluation, logs the statistics and returns the
\* cached response (lines 253-283) is at the level of "if cache_hit:", not
\* inside it: it runs whenever the evaluation runner is there.
finance_agent(T, user_query, enabled, evaluation, env) ==
    IF ~enabled
    THEN [T |-> T, wrote |-> FALSE, rag_saved |-> FALSE, llm_saved |-> FALSE,
          trace |-> [ran |-> TRUE, llm_hit |-> FALSE, cached_response |-> None,
                     rag_hit |-> FALSE, retrieved |-> FALSE,
                     steps |-> IF evaluation THEN <<"llm.invoke", "queue_evaluation">>
                               ELSE <<"llm.invoke">>,
                     reply |-> Text(env.response)]]
    ELSE LET c == get_cached_response(T.llm, user_query, env.llm_embed_ok, env.w)
         IN  IF evaluation
             THEN [T |-> [T EXCEPT !.llm = c.S], wrote |-> c.cache_hit,
                   rag_saved |-> FALSE, llm_saved |-> FALSE,
                   trace |-> [ran |-> TRUE, llm_hit |-> c.cache_hit,
                              cached_response |-> c.response,
                              rag_hit |-> FALSE, retrieved |-> FALSE,
                              steps |-> <<"get_cached_response", "queue_evaluation",
                                          "get_cache_stats">>,
                              reply |-> c.response]]
             ELSE LET r == retrieve(T.rag, user_query, env)
                  IN  [T |-> [rag |-> r.S,
                              llm |-> set(c.S, user_query, Payload(user_query, env.response),
                                          env.llm_set_ok, env.llm_sv)],
                       wrote |-> c.cache_hit, rag_saved |-> r.saved,
                       llm_saved |-> c.S.cache_data[generate_cache_key(user_query)] = None
                                     /\ env.llm_set_ok,
                       trace |-> [ran |-> TRUE, llm_hit |-> c.cache_hit,
                                  cached_response |-> c.response,
                                  rag_hit |-> r.cache_hit, retrieved |-> r.retrieved,
                                  steps |-> <<"get_cached_response">> \o r.steps
                                            \o <<"llm.invoke", "cache_response",
                                                 "get_cache_stats">>,
                                  reply |-> Text(env.response)]]

\* the inputs of the exploration of the caller
AgentQueries == {"qa", "qb"}
AgentContexts == {"v1"}
AgentResponses == {"v1", "v2"}
AgentEmbedOk == {TRUE}

AgentEnvs ==
    [llm_embed_ok : AgentEmbedOk, w : {x \in WriteOutcomes : Allowed(x)},
     rag_embed_ok : AgentEmbedOk, search_ok : BOOLEAN, context : AgentContexts,
     rag_set_ok : AgentEmbedOk, rag_sv : {x \in SaveOutcomes : Allowed(x)},
     response : AgentResponses,
     llm_set_ok : AgentEmbedOk, llm_sv : {x \in SaveOutcomes : Allowed(x)}]

\* the store stays within the bounds of the exploration
WithinBounds(S) ==
    /\ S.total_queries <= MaxQueries
    /\ Len(S.cache_queries) <= MaxIndex
    /\ len(S.cache_data) <= MaxIndex
    /\ \A k \in Keys : S.cache_data[k] # None => S.cache_data[k].access_count <= MaxAccess

Failed(outcome) == IF outcome = "ok" THEN 0 ELSE 1

Member(steps, step) == \E i \in 1..Len(steps) : steps[i] = step

\* one call of finance_agent
FinanceAgent(user_query, env) ==
    \E a \in {finance_agent([s \in Stores |-> Store(s)], user_query,
                            rag_enabled, EVALUATION_ENABLED, env)} :
        /\ WithinBounds(a.T.rag) /\ WithinBounds(a.T.llm)
        /\ ~a.wrote => env.w = "ok"
        /\ ~a.rag_saved => env.rag_sv = "ok"
        /\ ~a.llm_saved => env.llm_sv = "ok"
        /\ faults' = faults + Failed(env.w) + Failed(env.rag_sv) + Failed(env.llm_sv)
        /\ faults' <= MaxFaults
        /\ Install(a.T)
        /\ trace' = a.trace
        /\ calls' = [s \in Stores |->
                       IF s = "llm"
                       THEN IF Member(a.trace.steps, "get_cached_response")
                            THEN Counted("llm", a.trace.llm_hit)["llm"] ELSE calls[s]
                       ELSE IF Member(a.trace.steps, "get_rag_context")
                            THEN Counted("rag", a.trace.rag_hit)["rag"] ELSE calls[s]]
        /\ UNCHANGED <<rag_enabled, EVALUATION_ENABLED, threads, market_vars,
                       feedback_vars>>

\* finance_agent.clear_semantic_cache(cache_type), the deletions succeeding
clear_semantic_cache(cache_type) ==
    /\ rag_enabled
    /\ Clear(cache_type, "ok", "ok")

\* a process with or without the vector store and the evaluation package
InitAgent ==
    /\ InitStores
    /\ rag_enabled \in BOOLEAN
    /\ EVALUATION_ENABLED \in BOOLEAN
    /\ InitMarket(MaxTtl)
    /\ InitFeedback

NextAgent ==
    \/ \E q \in AgentQueries, env \in AgentEnvs : FinanceAgent(q, env)
    \/ \E c \in Scopes : clear_semantic_cache(c)
    \/ Restart

SpecAgent == InitAgent /\ [][NextAgent]_vars

(***************************************************************************)
(* Threads calling rag_cache.get at the same time.  SemanticCache holds no *)
(* lock; "self.total_queries += 1" (and the same for hits and misses) is a *)
(* load of the attribute followed by a store of the sum, and another       *)
(* thread can run in between.  The lookup between the two counter updates  *)
(* only reads the store, so it is one step.                                *)
(***************************************************************************)
ThreadQueries == {"qa", "qb"}

AllIdle == \A t \in Threads : threads[t].pc = "idle"

InFlight == Cardinality({t \in Threads : threads[t].pc # "idle"})

ThreadStep(t, frame) ==
    /\ threads' = [threads EXCEPT ![t] = frame]
    /\ UNCHANGED <<cache_data, cache_queries, cache_embeddings, cache_file,
                   cache_vectors_file, faults, rag_enabled, EVALUATION_ENABLED, trace,
                   market_vars, feedback_vars>>

\* a thread enters get(query)
Call(t, query, embed_ok) ==
    /\ threads[t].pc = "idle"
    /\ calls["rag"].get + InFlight < MaxQueries
    /\ ThreadStep(t, [IdleFrame EXCEPT !.pc = "load_total", !.query = query,
                                       !.embed_ok = embed_ok])
    /\ UNCHANGED <<hits, misses, total_queries, calls>>

\* self.total_queries += 1: the load
LoadTotal(t) ==
    /\ threads[t].pc = "load_total"
    /\ ThreadStep(t, [threads[t] EXCEPT !.pc = "store_total",
                                        !.reg = total_queries["rag"]])
    /\ UNCHANGED <<hits, misses, total_queries, calls>>

\* self.total_queries += 1: the store
StoreTotal(t) ==
    /\ threads[t].pc = "store_total"
    /\ total_queries' = [total_queries EXCEPT !["rag"] = threads[t].reg + 1]
    /\ ThreadStep(t, [threads[t] EXCEPT !.pc = "lookup", !.reg = 0])
    /\ UNCHANGED <<hits, misses, calls>>

\* the test for an empty map, embed_query, the scan and the payload lookup
Lookup(t) ==
    /\ threads[t].pc = "lookup"
    /\ \E r \in {get(Store("rag"), threads[t].query, threads[t].embed_ok)} :
          ThreadStep(t, [threads[t] EXCEPT !.pc = "load_counter",
                                           !.outcome = [hit |-> r.hit, data |-> r.data]])
    /\ UNCHANGED <<hits, misses, total_queries, calls>>

\* self.hits += 1 or self.misses += 1: the load
LoadCounter(t) ==
    /\ threads[t].pc = "load_counter"
    /\ ThreadStep(t, [threads[t] EXCEPT
                        !.pc = "store_counter",
                        !.reg = IF threads[t].outcome.hit THEN hits["rag"]
                                ELSE misses["rag"]])
    /\ UNCHANGED <<hits, misses, total_queries, calls>>

\* self.hits += 1 or self.misses += 1: the store, and the return
StoreCounter(t) ==
    /\ threads[t].pc = "store_counter"
    /\ IF threads[t].outcome.hit
       THEN hits' = [hits EXCEPT !["rag"] = threads[t].reg + 1] /\ UNCHANGED misses
       ELSE misses' = [misses EXCEPT !["rag"] = threads[t].reg + 1] /\ UNCHANGED hits
    /\ calls' = Counted("rag", threads[t].outcome.hit)
    /\ ThreadStep(t, IdleFrame)
    /\ UNCHANGED total_queries

\* an insert made while no thread is inside get
QuietSet(query, val) ==
    /\ AllIdle
    /\ Set("rag", query, val, TRUE, "ok")

\* a clear made while no thread is inside get
QuietClear ==
    /\ AllIdle
    /\ Clear("rag", "ok", "ok")

NextThreads ==
    \/ \E t \in Threads, q \in ThreadQueries, ok \in BOOLEAN : Call(t, q, ok)
    \/ \E t \in Threads : LoadTotal(t)
    \/ \E t \in Threads : StoreTotal(t)
    \/ \E t \in Threads : Lookup(t)
    \/ \E t \in Threads : LoadCounter(t)
    \/ \E t \in Threads : StoreCounter(t)
    \/ \E q \in ThreadQueries, v \in Values : QuietSet(q, v)
    \/ QuietClear

SpecThreads == Init /\ [][NextThreads]_vars

(***************************************************************************)
(* A process that dies inside _save_cache, between the write of the        *)
(* payload-map file and the write of the vector file, and the process      *)
(* started after it.                                                       *)
(***************************************************************************)
\* the files when a set that inserts dies after both writes of its save
set_crashing_after_save(S, query, data) ==
    LET S1 == [S EXCEPT !.cache_data[generate_cache_key(query)] = stamp(data),
                        !.cache_queries = Append(@, query),
                        !.cache_embeddings = Append(@, Embed[query])]
    IN  [S1 EXCEPT !.cache_file = json_dump(S1.cache_data),
                   !.cache_vectors_file = np_save(S1.cache_queries, S1.cache_embeddings)]

\* the files when a set that inserts dies after json.dump and before np.save
set_crashing_in_save(S, query, data) ==
    LET S1 == [S EXCEPT !.cache_data[generate_cache_key(query)] = stamp(data),
                        !.cache_queries = Append(@, query),
                        !.cache_embeddings = Append(@, Embed[query])]
    IN  [S1 EXCEPT !.cache_file = json_dump(S1.cache_data)]

\* set(query, ...) dies in its save; a new process constructs the stores
CrashInSave(s, query, val) ==
    /\ cache_data[s][generate_cache_key(query)] = None
    /\ Len(cache_queries[s]) < MaxIndex /\ len(cache_data[s]) < MaxIndex
    /\ \E D \in {set_crashing_in_save(Store(s), query, Payload(query, val))} :
          Install([x \in Stores |->
                     IF x = s
                     THEN construct(similarity_threshold(x), D.cache_file, D.cache_vectors_file)
                     ELSE construct(similarity_threshold(x), cache_file[x],
                                    cache_vectors_file[x])])
    /\ calls' = [x \in Stores |-> NoCalls]
    /\ UNCHANGED faults
    /\ CallerIdle

\* the context layer's store with a disk that never fails and a process
\* that can die while saving
NextCrash ==
    \/ \E q \in Queries, ok \in BOOLEAN : Get("rag", q, ok)
    \/ \E q \in Queries, v \in Values : Set("rag", q, v, TRUE, "ok")
    \/ \E q \in Queries, v \in Values : CrashInSave("rag", q, v)
    \/ Clear("rag", "ok", "ok")

SpecCrash == Init /\ [][NextCrash]_vars

(***************************************************************************)
(* Threads inside set of the context layer's store.  set takes no lock:    *)
(* a thread can be switched out between any two of its statements.  The    *)
(* embedding provider and the disk do not fail here.                       *)
(***************************************************************************)
InsertStep(t, frame) ==
    /\ threads' = [threads EXCEPT ![t] = frame]
    /\ UNCHANGED <<hits, misses, total_queries, calls, faults, rag_enabled,
                   EVALUATION_ENABLED, trace, market_vars, feedback_vars>>

\* a thread enters set(query, data) with a key the map does not hold (with a
\* key it holds, set returns at once) and stores the stamped payload
StorePayload(t, query, val) ==
    /\ threads[t].pc = "idle"
    /\ cache_data["rag"][generate_cache_key(query)] = None
    /\ len(cache_data["rag"]) < MaxIndex
    /\ cache_data' = [cache_data EXCEPT
                        !["rag"][generate_cache_key(query)] = stamp(Payload(query, val))]
    /\ InsertStep(t, [IdleFrame EXCEPT !.pc = "embed_query", !.query = query])
    /\ UNCHANGED <<cache_queries, cache_embeddings, cache_file, cache_vectors_file>>

\* embed_query(query) returns and self.cache_queries.append(query)
AppendQuery(t) ==
    /\ threads[t].pc = "embed_query"
    /\ cache_queries' = [cache_queries EXCEPT !["rag"] = Append(@, threads[t].query)]
    /\ InsertStep(t, [threads[t] EXCEPT !.pc = "append_embedding"])
    /\ UNCHANGED <<cache_data, cache_embeddings, cache_file, cache_vectors_file>>

\* self.cache_embeddings.append(query_embedding)
AppendEmbedding(t) ==
    /\ threads[t].pc = "append_embedding"
    /\ cache_embeddings' = [cache_embeddings EXCEPT
                              !["rag"] = Append(@, Embed[threads[t].query])]
    /\ InsertStep(t, [threads[t] EXCEPT !.pc = "json_dump"])
    /\ UNCHANGED <<cache_data, cache_queries, cache_file, cache_vectors_file>>

\* _save_cache: json.dump(self.cache_data, f)
DumpPayloads(t) ==
    /\ threads[t].pc = "json_dump"
    /\ cache_file' = [cache_file EXCEPT !["rag"] = json_dump(cache_data["rag"])]
    /\ InsertStep(t, [threads[t] EXCEPT !.pc = "np_save"])
    /\ UNCHANGED <<cache_data, cache_queries, cache_embeddings, cache_vectors_file>>

\* _save_cache: np.save of the two lists as they are now, and the return
SaveVectors(t) ==
    /\ threads[t].pc = "np_save"
    /\ cache_vectors_file' = [cache_vectors_file EXCEPT
                                !["rag"] = np_save(cache_queries["rag"],
                                                   cache_embeddings["rag"])]
    /\ InsertStep(t, [IdleFrame EXCEPT !.query = threads[t].query,
                                       !.outcome = Text("returned")])
    /\ UNCHANGED <<cache_data, cache_queries, cache_embeddings, cache_file>>

\* a clear made while no thread is inside set
ClearBetweenInserts ==
    /\ AllIdle
    /\ Clear("rag", "ok", "ok")

NextInserts ==
    \/ \E t \in Threads, q \in Queries, v \in Values : StorePayload(t, q, v)
    \/ \E t \in Threads : AppendQuery(t)
    \/ \E t \in Threads : AppendEmbedding(t)
    \/ \E t \in Threads : DumpPayloads(t)
    \/ \E t \in Threads : SaveVectors(t)
    \/ ClearBetweenInserts

SpecInserts == Init /\ [][NextInserts]_vars

(***************************************************************************)
(* The market data cache under calls of the tools and a running clock.     *)
(***************************************************************************)
\* the semantic cache and its callers take no part in a step
CacheIdle ==
    UNCHANGED <<cache_data, cache_queries, cache_embeddings, hits, misses, total_queries,
                cache_file, cache_vectors_file, calls, faults, rag_enabled,
                EVALUATION_ENABLED, trace, threads>>

\* market_cache.get(tool_name, **kwargs)
MarketGet(tool_name, kwargs) ==
    /\ cache' = market_cache_get(cache, ttl_seconds, now, tool_name, kwargs).cache
    /\ UNCHANGED <<ttl_seconds, now, latest, feedback_vars>>
    /\ CacheIdle

\* market_cache.set(tool_name, data, **kwargs)
MarketSet(tool_name, data, kwargs) ==
    /\ \/ latest[<<tool_name, Dict(kwargs)>>] # None
       \/ Cardinality({c \in Tools \X Dicts : latest[c] # None}) < MaxSets
    /\ cache' = market_cache_set(cache, now, tool_name, data, kwargs)
    /\ latest' = [latest EXCEPT ![<<tool_name, Dict(kwargs)>>] = [data |-> data, at |-> now]]
    /\ UNCHANGED <<ttl_seconds, now, feedback_vars>>
    /\ CacheIdle

\* market_cache.clear()
MarketClear ==
    /\ cache' = market_cache_clear(cache)
    /\ latest' = NoSets
    /\ UNCHANGED <<ttl_seconds, now, feedback_vars>>
    /\ CacheIdle

\* a second passes
Tick ==
    /\ now < MaxTime
    /\ now' = now + 1
    /\ UNCHANGED <<cache, ttl_seconds, latest, feedback_vars>>
    /\ CacheIdle

InitMarketCache ==
    /\ InitStores
    /\ rag_enabled = TRUE
    /\ EVALUATION_ENABLED = TRUE
    /\ \E ttl \in 1..MaxTtl : InitMarket(ttl)
    /\ InitFeedback

NextMarket ==
    \/ \E t \in Tools, kw \in Kwargs : MarketGet(t, kw)
    \/ \E t \in Tools, d \in MarketData, kw \in Kwargs : MarketSet(t, d, kw)
    \/ MarketClear
    \/ Tick

SpecMarket == InitMarketCache /\ [][NextMarket]_vars

(***************************************************************************)
(* The feedback processor: one thread calls start, stop and the queue_*    *)
(* methods; the threads start() created run _worker.                       *)
(***************************************************************************)
FeedbackIdle == CacheIdle /\ UNCHANGED market_vars

\* the thread object the next threading.Thread(...) creates
NextThread == IF workers["w1"] = Unstarted THEN "w1" ELSE "w2"

\* AsyncFeedbackProcessor.start
start ==
    /\ caller = "idle"
    /\ IF is_running
       THEN UNCHANGED <<is_running, worker_thread, workers>>
       ELSE /\ workers[NextThread] = Unstarted
            /\ is_running' = TRUE
            /\ worker_thread' = Text(NextThread)
            /\ workers' = [workers EXCEPT ![NextThread].pc = "check"]
    /\ UNCHANGED <<queue, queued, processed, caller>>
    /\ FeedbackIdle

\* AsyncFeedbackProcessor.stop, up to the call of join
stop ==
    /\ caller = "idle"
    /\ is_running' = FALSE
    /\ caller' = IF worker_thread # None THEN "join" ELSE "idle"
    /\ UNCHANGED <<worker_thread, workers, queue, queued, processed>>
    /\ FeedbackIdle

\* worker_thread.join(timeout=5) returns because the thread has ended
JoinReturns ==
    /\ caller = "join"
    /\ workers[worker_thread.text].pc = "exited"
    /\ caller' = "idle"
    /\ UNCHANGED <<is_running, worker_thread, workers, queue, queued, processed>>
    /\ FeedbackIdle

\* worker_thread.join(timeout=5) returns after five seconds while the thread
\* is still writing the files of a task
JoinTimesOut ==
    /\ caller = "join"
    /\ workers[worker_thread.text].pc = "process"
    /\ caller' = "idle"
    /\ UNCHANGED <<is_running, worker_thread, workers, queue, queued, processed>>
    /\ FeedbackIdle

\* queue_quality_check and queue_performance_update: self.queue.put(task)
Put(type) ==
    /\ caller = "idle"
    /\ queued < MaxTasks
    /\ queue' = Append(queue, [id |-> queued + 1, type |-> type])
    /\ queued' = queued + 1
    /\ UNCHANGED <<is_running, worker_thread, workers, processed, caller>>
    /\ FeedbackIdle

queue_quality_check == Put("quality_check")

queue_performance_update == Put("performance_update")

\* _worker: while self.is_running
WorkerCheck(w) ==
    /\ workers[w].pc = "check"
    /\ workers' = [workers EXCEPT ![w].pc = IF is_running THEN "get" ELSE "exited"]
    /\ UNCHANGED <<is_running, worker_thread, queue, queued, processed, caller>>
    /\ FeedbackIdle

\* _worker: self.queue.get(timeout=1.0) returns the head, or raises Empty
WorkerGet(w) ==
    /\ workers[w].pc = "get"
    /\ IF queue # <<>>
       THEN /\ workers' = [workers EXCEPT ![w] = [pc |-> "process", task |-> Head(queue)]]
            /\ queue' = Tail(queue)
       ELSE /\ workers' = [workers EXCEPT ![w].pc = "check"]
            /\ UNCHANGED queue
    /\ UNCHANGED <<is_running, worker_thread, queued, processed, caller>>
    /\ FeedbackIdle

\* _worker: _process_quality_check or _process_performance_update returns or
\* raises, and the exception is logged
WorkerProcess(w, raises) ==
    /\ workers[w].pc = "process"
    /\ processed' = Append(processed, [id |-> workers[w].task.id, worker |-> w,
                                       raised |-> raises])
    /\ workers' = [workers EXCEPT ![w] = [pc |-> "check", task |-> None]]
    /\ UNCHANGED <<is_running, worker_thread, queue, queued, caller>>
    /\ FeedbackIdle

WorkerStep(w) ==
    \/ WorkerCheck(w)
    \/ WorkerGet(w)
    \/ \E raises \in BOOLEAN : WorkerProcess(w, raises)

NextFeedback ==
    \/ start
    \/ stop
    \/ JoinReturns
    \/ JoinTimesOut
    \/ queue_quality_check
    \/ queue_performance_update
    \/ \E w \in Workers : WorkerCheck(w)
    \/ \E w \in Workers : WorkerGet(w)
    \/ \E w \in Workers, raises \in BOOLEAN : WorkerProcess(w, raises)

SpecFeedback == Init /\ [][NextFeedback]_vars

\* every thread that start() created is scheduled again and again
SpecFeedbackFair == SpecFeedback /\ \A w \in Workers : WF_vars(WorkerStep(w))

(***************************************************************************)
(* Properties.                                                             *)
(***************************************************************************)
WithThreshold(S, t) == [S EXCEPT !.similarity_threshold = t]

Similarity(S, query, i) == cosine_similarity(Embed[query], S.cache_embeddings[i])

\* position i holds the maximum similarity to query, and is the earliest to
IsEarliestMaximum(S, query, i) ==
    /\ \A j \in 1..Len(S.cache_embeddings) : Similarity(S, query, j) <= Similarity(S, query, i)
    /\ \A j \in 1..(i - 1) : Similarity(S, query, j) < Similarity(S, query, i)

LookupIsEarliestMaximum(S, query) ==
    \A r \in {get(S, query, TRUE)} :
        IF S.cache_embeddings = <<>> THEN ~r.hit
        ELSE \A i \in {CHOOSE i \in 1..Len(S.cache_embeddings) : IsEarliestMaximum(S, query, i)} :
                \A payload \in {S.cache_data[generate_cache_key(S.cache_queries[i])]} :
                    /\ r.hit <=> (Similarity(S, query, i) >= S.similarity_threshold
                                   /\ payload # None)
                    /\ r.hit => r.data = payload

\* C1: whenever the embedding provider answers, get returns a hit exactly
\* when the maximum cosine similarity over the whole index is >= the store's
\* threshold and the payload keyed by that stored query text exists; the hit
\* carries that payload, and among equal maxima the earliest inserted wins.
C1_LookupReturnsEarliestMaximum ==
    \A s \in Stores, t \in Thresholds :
        \A S \in {WithThreshold(Store(s), t)} :
            \A q \in Queries : LookupIsEarliestMaximum(S, q)

\* two stored entries tie at the maximum for some query, a get has returned a
\* hit, and the query hits at the threshold equal to its similarity
C1_Witness ==
    /\ hits["rag"] > 0
    /\ \E q \in Queries :
          LET S == Store("rag")
          IN  /\ Len(S.cache_embeddings) = 2
              /\ S.cache_queries[1] # S.cache_queries[2]
              /\ Similarity(S, q, 1) = Similarity(S, q, 2)
              /\ Similarity(S, q, 1) = 9600
              /\ get(WithThreshold(S, 9600), q, TRUE).hit
              /\ get(S, q, TRUE).data = S.cache_data[generate_cache_key(S.cache_queries[1])]

MissThenHit(S, query, val, first_ok, sv) ==
    \A r1 \in {get(S, query, first_ok)} :
        ~r1.hit =>
           \A r2 \in {get(set(r1.S, query, Payload(query, val), TRUE, sv), query, TRUE)} :
               r2.hit /\ r2.data.query = query /\ r2.data.val = val

\* C2: in every reachable state, for every query q and payload p, a get(q)
\* that misses followed by set(q, p) with a working embedding provider is
\* followed by a get(q) that hits with payload p.
C2_MissThenHit ==
    \A s \in Stores :
        \A S \in {Store(s)} :
            \A q \in Queries, v \in Values, ok \in BOOLEAN, sv \in SaveOutcomes :
                MissThenHit(S, q, v, ok, sv)

DuplicateInsertIsNoOp(S, query, v1, v2, ok1, sv1) ==
    \A S1 \in {set(S, query, Payload(query, v1), ok1, sv1)} :
        /\ S.cache_data[generate_cache_key(query)] = None
              => S1.cache_data[generate_cache_key(query)] = stamp(Payload(query, v1))
        /\ \A ok2 \in BOOLEAN, sv2 \in SaveOutcomes :
              set(S1, query, Payload(query, v2), ok2, sv2) = S1

\* C3: set(q, p1) followed by set(q, p2) leaves p1 stored under q's key, and
\* the second call changes neither the payload map, nor the index, nor the
\* files (nor anything else of the store).
C3_NoDuplicateInsert ==
    \A s \in Stores :
        \A S \in {Store(s)} :
            \A q \in Queries, v1 \in Values, ok1 \in BOOLEAN, sv1 \in SaveOutcomes :
                \A v2 \in Values \ {v1} :
                    DuplicateInsertIsNoOp(S, q, v1, v2, ok1, sv1)

\* an entry inserted with v1 and saved is in the store, and a set of the same
\* query with v2 changes nothing
C3_Witness ==
    \E q \in Queries :
        LET S == Store("rag")
            entry == S.cache_data[generate_cache_key(q)]
        IN  /\ entry # None
            /\ entry.val = "v1"
            /\ S.cache_file = json_dump(S.cache_data)
            /\ set(S, q, Payload(q, "v2"), TRUE, "ok") = S

\* C4: the index has as many entries as the payload map has keys, and every
\* payload key is the hash of exactly one query text of the index.
C4_IndexMatchesPayloadKeys ==
    \A s \in Stores :
        /\ Len(cache_queries[s]) = len(cache_data[s])
        /\ \A k \in Keys :
              cache_data[s][k] # None =>
                 Cardinality({i \in 1..Len(cache_queries[s]) :
                                 generate_cache_key(cache_queries[s][i]) = k}) = 1

\* C5: total_queries is the number of get calls made on the store object,
\* cache_hits the number that returned a hit, cache_misses the number that
\* returned a miss, and hits + misses = total_queries.
C5_StatsAccounting ==
    \A s \in Stores :
        LET stats == get_stats(Store(s))
        IN  /\ stats.total_queries = calls[s].get
            /\ stats.cache_hits = calls[s].hit
            /\ stats.cache_misses = calls[s].miss
            /\ stats.cache_hits + stats.cache_misses = stats.total_queries

\* one get has hit and one has missed on a store that holds an entry whose
\* embedding was never stored
C5_Witness ==
    /\ calls["rag"].hit = 1
    /\ calls["rag"].miss = 1
    /\ len(cache_data["rag"]) > Len(cache_queries["rag"])

StoreNext(s) ==
    [similarity_threshold |-> similarity_threshold(s),
     cache_file |-> cache_file'[s], cache_vectors_file |-> cache_vectors_file'[s],
     hits |-> hits'[s], misses |-> misses'[s], total_queries |-> total_queries'[s],
     cache_queries |-> cache_queries'[s], cache_embeddings |-> cache_embeddings'[s],
     cache_data |-> cache_data'[s]]

\* a step leaves the store s as it is and makes no lookup of it a hit
Untouched(s) ==
    /\ StoreNext(s) = Store(s)
    /\ \A q \in Queries : get(StoreNext(s), q, TRUE).hit => get(Store(s), q, TRUE).hit

ContextLayerCall ==
    \/ \E q \in LayerQueries, ok \in LayerEmbedOk : get_rag_context(q, ok)
    \/ \E q \in LayerQueries, v \in LayerValues, ok \in LayerEmbedOk, sv \in SaveOutcomes :
          set_rag_context(q, v, ok, sv)

ResponseLayerCall ==
    \/ \E q \in LayerQueries, ok \in LayerEmbedOk, w \in WriteOutcomes :
          get_llm_response(q, ok, w)
    \/ \E q \in LayerQueries, v \in LayerValues, ok \in LayerEmbedOk, sv \in SaveOutcomes :
          set_llm_response(q, v, ok, sv)

\* C7: a call of set_rag_context or get_rag_context leaves the response-layer
\* store (payload map, index, counters, files) unchanged and a call of
\* set_llm_response or get_llm_response leaves the context-layer store
\* unchanged, so an insert into one layer makes no lookup of the other a hit.
C7_LayersAreIndependent ==
    [][/\ ContextLayerCall => Untouched("llm")
       /\ ResponseLayerCall => Untouched("rag")]_vars

\* qa is in the context layer alone, and the response layer has been asked
\* and has missed
C7_Witness ==
    /\ cache_data["rag"][generate_cache_key("qa")] # None
    /\ cache_queries["rag"] = <<"qa">>
    /\ len(cache_data["llm"]) = 0
    /\ cache_queries["llm"] = <<>>
    /\ calls["llm"].miss > 0
    /\ ~get(Store("llm"), "qa", TRUE).hit

Fresh(S) == construct(S.similarity_threshold, S.cache_file, S.cache_vectors_file)

RoundTrip(S, query, val) ==
    \A S1 \in {set(S, query, Payload(query, val), TRUE, "ok")} :
        \A F \in {Fresh(S1)} :
            /\ F.cache_data = S1.cache_data
            /\ F.cache_queries = S1.cache_queries
            /\ F.cache_embeddings = S1.cache_embeddings
            /\ \A r \in {get(F, query, TRUE)} :
                  r.hit /\ r.data = stamp(Payload(query, val))

\* C8: after a set(q, p) that inserted and whose save succeeded, a store
\* constructed on the same files holds the same payload map and the same
\* index, and its get(q) returns a hit with p.
C8_PersistenceRoundTrip ==
    \A s \in Stores :
        \A S \in {Store(s)} :
            \A q \in Queries, v \in Values :
                S.cache_data[generate_cache_key(q)] = None => RoundTrip(S, q, v)

\* the files hold two saved entries; a store constructed on them equals the
\* live one and answers a query it holds with a hit
C8_Witness ==
    \E q \in Queries :
        \A S \in {Store("rag")} :
            \A F \in {Fresh(S)} :
                /\ Len(S.cache_queries) = 2
                /\ S.cache_data[generate_cache_key(q)] # None
                /\ S.cache_vectors_file = np_save(S.cache_queries, S.cache_embeddings)
                /\ F.cache_data = S.cache_data
                /\ F.cache_queries = S.cache_queries
                /\ get(F, q, TRUE).hit
                /\ get(F, q, TRUE).data = S.cache_data[generate_cache_key(q)]

ValidMapCorruptVectors(s) ==
    cache_file[s].st = "ok" /\ cache_vectors_file[s].st = "corrupt"

AlwaysMisses(S) == \A q \in Queries : ~get(S, q, TRUE).hit

C10_ThresholdMonotonicity ==
    \A s \in Stores :
        \A S \in {Store(s)} :
            \A q \in Queries, t1 \in Thresholds, t2 \in Thresholds :
                t1 < t2 =>
                    \A r2 \in {get(WithThreshold(S, t2), q, TRUE)} :
                        r2.hit =>
                            \A r1 \in {get(WithThreshold(S, t1), q, TRUE)} :
                                r1.hit /\ r1.data = r2.data

\* a get has hit, and some query hits at 0.95 and at 0.96 and misses at 0.97
C10_Witness ==
    /\ hits["rag"] > 0
    /\ \E q \in Queries :
          /\ get(WithThreshold(Store("rag"), 9500), q, TRUE).hit
          /\ get(WithThreshold(Store("rag"), 9600), q, TRUE).hit
          /\ ~get(WithThreshold(Store("rag"), 9700), q, TRUE).hit

\* the steps of a call that belong to the pipeline, in the order they ran
Pipeline(steps) ==
    SelectSeq(steps, LAMBDA x : x \notin {"queue_evaluation", "get_cache_stats"})

\* C11: when RAG is enabled and get_cached_response returns a hit,
\* finance_agent replies with the cached response without consulting the
\* context layer, without vector-store retrieval and without invoking the
\* LLM, whether or not the evaluation runner is enabled.
C11_ResponseHitSkipsPipeline ==
    (trace.ran /\ rag_enabled /\ trace.llm_hit) =>
        /\ Pipeline(trace.steps) = <<"get_cached_response">>
        /\ trace.reply = trace.cached_response

\* C12: when RAG is enabled and the response layer misses, finance_agent
\* consults the context layer next, searches the vector store only when the
\* context layer misses too, then invokes the LLM, and before it returns it
\* has written the response into the response layer and, after a real
\* retrieval, the context into the context layer, whether or not the
\* evaluation runner is enabled.
C12_ResponseMissRunsPipeline ==
    (trace.ran /\ rag_enabled /\ ~trace.llm_hit) =>
        /\ trace.reply \in {Text(x) : x \in AgentResponses}
        /\ Pipeline(trace.steps) =
              <<"get_cached_response", "get_rag_context">>
              \o (IF trace.rag_hit THEN <<>>
                  ELSE IF trace.retrieved THEN <<"similarity_search", "set_rag_context">>
                  ELSE <<"similarity_search">>)
              \o <<"llm.invoke", "cache_response">>

\* C13: when the embedding provider fails during get, the call returns a
\* miss, total_queries and cache_misses each increase by one, cache_hits is
\* unchanged, and the payload map, the index and both files are unchanged.
C13_EmbedFailureIsCountedMiss ==
    \A s \in Stores :
        \A S \in {Store(s)} :
            \A q \in Queries :
                \A r \in {get(S, q, FALSE)} :
                    /\ ~r.hit
                    /\ r.data = None
                    /\ r.S = [S EXCEPT !.total_queries = @ + 1, !.misses = @ + 1]

\* the store holds a query that a working provider would find, a miss has
\* been counted on it, and a get of that query with a failing provider misses
C13_Witness ==
    \E q \in Queries :
        \A S \in {Store("rag")} :
            /\ len(S.cache_data) > 0
            /\ get(S, q, TRUE).hit
            /\ calls["rag"].miss > 0
            /\ misses["rag"] = calls["rag"].miss
            /\ ~get(S, q, FALSE).hit
            /\ get(S, q, FALSE).S.misses = S.misses + 1

FailedSaveKeepsInsert(S, query, val, sv) ==
    \A S1 \in {set(S, query, Payload(query, val), TRUE, sv)} :
        /\ S1.cache_data[generate_cache_key(query)] = stamp(Payload(query, val))
        /\ S1.cache_queries = Append(S.cache_queries, query)
        /\ S1.cache_embeddings = Append(S.cache_embeddings, Embed[query])
        /\ \A r \in {get(S1, query, TRUE)} :
              r.hit /\ r.data = stamp(Payload(query, val))

\* C14: when the disk write fails during set(q, p), the in-memory insert is
\* kept: the payload and the index entry for q remain, and a later get(q) on
\* the same object returns a hit with p.
C14_FailedSaveKeepsInsert ==
    \A s \in Stores :
        \A S \in {Store(s)} :
            \A q \in Queries, v \in Values, sv \in SaveOutcomes \ {"ok"} :
                S.cache_data[generate_cache_key(q)] = None
                    => FailedSaveKeepsInsert(S, q, v, sv)

\* a save has failed: an entry is in the payload map and in the index but
\* not in the vector file, and a get has returned a hit
C14_Witness ==
    \E i \in 1..Len(cache_queries["rag"]) :
        \A S \in {Store("rag")} :
            \A q \in {S.cache_queries[i]} :
                /\ faults = 1
                /\ S.cache_data[generate_cache_key(q)] # None
                /\ \A j \in 1..Len(S.cache_vectors_file.dict.queries) :
                      S.cache_vectors_file.dict.queries[j] # q
                /\ hits["rag"] > 0
                /\ get(S, q, TRUE).hit
                /\ get(S, q, TRUE).data = S.cache_data[generate_cache_key(q)]

\* C15: no public cache operation raises to the caller under any failure of
\* the embedding provider or of the file system; in particular clear returns
\* normally when deleting a cache file fails.  (get, set, update_access and
\* get_stats catch or cannot raise: their operators have no raising outcome.)
C15_NoOperationRaises ==
    \A s \in Stores :
        \A S \in {Store(s)} :
            \A rm \in RemoveOutcomes : ~clear(S, rm).raised

IsEmptyStore(S) ==
    /\ len(S.cache_data) = 0
    /\ S.cache_queries = <<>>
    /\ S.cache_embeddings = <<>>

Cleared(S) ==
    /\ IsEmptyStore(S)
    /\ S.hits = 0 /\ S.misses = 0 /\ S.total_queries = 0
    /\ S.cache_file.st = "absent"
    /\ S.cache_vectors_file.st = "absent"
    /\ \A F \in {Fresh(S)} : IsEmptyStore(F) /\ AlwaysMisses(F)

\* C16: after a clear() that has returned, the store's payload map and index
\* are empty, hits, misses and total_queries are 0 and both files are absent,
\* so a store constructed afterwards on the same directory is empty and every
\* get on it misses.
C16_ClearEmptiesStore ==
    \A s \in Stores :
        \A S \in {Store(s)} :
            \A rm \in RemoveOutcomes :
                \A c \in {clear(S, rm)} : ~c.raised => Cleared(c.S)

\* a store with two entries, both files and counted calls, which a new
\* process would load in full, and whose clear leaves nothing
C16_Witness ==
    \A S \in {Store("rag")} :
        /\ Len(S.cache_queries) = 2
        /\ len(S.cache_data) = 2
        /\ S.hits > 0 /\ S.misses > 0
        /\ S.cache_file.st = "ok"
        /\ S.cache_vectors_file.st = "ok"
        /\ len(Fresh(S).cache_data) = 2
        /\ ~clear(S, "ok").raised
        /\ Cleared(clear(S, "ok").S)

\* the store s after the step is cleared: empty, counters 0, files absent
ClearedNext(s) ==
    /\ IsEmptyStore(StoreNext(s))
    /\ hits'[s] = 0 /\ misses'[s] = 0 /\ total_queries'[s] = 0
    /\ cache_file'[s].st = "absent"
    /\ cache_vectors_file'[s].st = "absent"

\* C17: TwoLevelCache.clear with scope 'rag' clears the context-layer store
\* and leaves the response-layer store's entries, index, counters and files
\* unchanged; with scope 'llm' it clears the response-layer store and leaves
\* the context-layer store unchanged; with scope 'all' it clears both (the
\* clearing being that of a call whose deletions succeed).
C17_ClearScope ==
    [][/\ \A r1 \in RemoveOutcomes :
             Clear("rag", r1, "ok") => StoreNext("llm") = Store("llm")
       /\ \A r2 \in RemoveOutcomes :
             Clear("llm", "ok", r2) => StoreNext("rag") = Store("rag")
       /\ Clear("rag", "ok", "ok") => ClearedNext("rag")
       /\ Clear("llm", "ok", "ok") => ClearedNext("llm")
       /\ Clear("all", "ok", "ok") => ClearedNext("rag") /\ ClearedNext("llm")]_vars

\* both layers hold an entry, their files and counted calls, so that a clear
\* of one scope is told from a clear of another
C17_Witness ==
    \A s \in Stores :
        /\ len(cache_data[s]) > 0
        /\ Len(cache_queries[s]) > 0
        /\ total_queries[s] > 0
        /\ cache_file[s].st = "ok"
        /\ cache_vectors_file[s].st = "ok"
        /\ Cleared(clear(Store(s), "ok").S)

IsPrefix(a, b) == Len(a) <= Len(b) /\ SubSeq(b, 1, Len(a)) = a

\* the step removes no payload key and no index entry of store s
NothingRemoved(s) ==
    /\ \A k \in Keys :
          cache_data[s][k] # None =>
             /\ cache_data'[s][k] # None
             /\ cache_data'[s][k].query = cache_data[s][k].query
             /\ cache_data'[s][k].val = cache_data[s][k].val
    /\ IsPrefix(cache_queries[s], cache_queries'[s])
    /\ IsPrefix(cache_embeddings[s], cache_embeddings'[s])
    /\ get_stats(StoreNext(s)).cache_size >= get_stats(Store(s)).cache_size

StoreCall(s) ==
    \/ \E q \in Queries, ok \in BOOLEAN : Get(s, q, ok)
    \/ \E q \in Queries, v \in Values, ok \in BOOLEAN, sv \in SaveOutcomes :
          Set(s, q, v, ok, sv)
    \/ \E q \in Queries, w \in WriteOutcomes : UpdateAccess(s, q, w)

\* C18: no call of get, set or update_access removes a payload key or an
\* index entry: an entry inserted once is still there, with its payload, and
\* cache_size never decreases, until clear is called on the store.
C18_NoEviction ==
    [][StoreCall("rag") => NothingRemoved("rag")]_vars

\* two entries were inserted, a later get has hit and update_access has run,
\* and both entries are in the payload map and in the index
C18_Witness ==
    /\ Len(cache_queries["rag"]) = 2
    /\ len(cache_data["rag"]) = 2
    /\ \A i \in 1..2 : cache_data["rag"][generate_cache_key(cache_queries["rag"][i])] # None
    /\ hits["rag"] > 0
    /\ \E k \in Keys : cache_data["rag"][k] # None /\ cache_data["rag"][k].access_count = 2

\* C19: when several threads call get concurrently on a store that no thread
\* is inserting into or clearing, each call returns what it would return in a
\* sequential execution, and when all calls have finished total_queries is
\* the number of calls and cache_hits + cache_misses = total_queries.
C19_ConcurrentLookupsAreSafe ==
    /\ \A t \in Threads :
          threads[t].pc \in {"load_counter", "store_counter"} =>
             \A r \in {get(Store("rag"), threads[t].query, threads[t].embed_ok)} :
                threads[t].outcome = [hit |-> r.hit, data |-> r.data]
    /\ AllIdle =>
          /\ total_queries["rag"] = calls["rag"].get
          /\ hits["rag"] + misses["rag"] = total_queries["rag"]

\* the best match of query reaches the threshold and its key has no payload
Desynchronised(S, query) ==
    /\ S.cache_embeddings # <<>>
    /\ \A i \in {CHOOSE i \in 1..Len(S.cache_embeddings) : IsEarliestMaximum(S, query, i)} :
          /\ Similarity(S, query, i) >= S.similarity_threshold
          /\ S.cache_data[generate_cache_key(S.cache_queries[i])] = None

\* C20: when the best-matching stored query text reaches the threshold but
\* its key is absent from the payload map, get returns a miss and increases
\* cache_misses, not cache_hits, by one.
C20_DesynchronisedKeyIsMiss ==
    \A s \in Stores :
        \A S \in {Store(s)} :
            \A q \in Queries :
                Desynchronised(S, q) =>
                    \A r \in {get(S, q, TRUE)} :
                        /\ ~r.hit
                        /\ r.data = None
                        /\ r.S = [S EXCEPT !.total_queries = @ + 1, !.misses = @ + 1]

\* the index holds a query whose payload is gone while the payload map holds
\* another entry, and a get has missed
C20_Witness ==
    \E q \in Queries :
        \A S \in {Store("rag")} :
            /\ len(S.cache_data) > 0
            /\ Desynchronised(S, q)
            /\ S.misses > 0
            /\ ~get(S, q, TRUE).hit
            /\ get(S, q, TRUE).S.hits = S.hits

\* a restart would reconstruct exactly the entries of S: the payload-map
\* file holds the payload map and the vector file holds the index
Mirrored(S) ==
    /\ json_load(S.cache_file) = S.cache_data
    /\ S.cache_vectors_file.dict = [queries |-> S.cache_queries,
                                    embeddings |-> S.cache_embeddings]
    /\ \A F \in {Fresh(S)} :
          /\ F.cache_data = S.cache_data
          /\ F.cache_queries = S.cache_queries
          /\ F.cache_embeddings = S.cache_embeddings

\* C21: after every set or update_access call that has returned with no disk
\* write failing (set calls in which the embedding provider failed included),
\* the payload-map file equals the in-memory payload map and the vector file
\* equals the in-memory index, so a restart reconstructs exactly the
\* in-memory entries.
C21_DiskMirrorsMemory ==
    faults = 0 =>
        \A s \in Stores :
            \A S \in {Store(s)} :
                Mirrored(S) =>
                    /\ \A q \in Queries, v \in Values, ok \in BOOLEAN :
                          Mirrored(set(S, q, Payload(q, v), ok, "ok"))
                    /\ \A q \in Queries :
                          Mirrored(update_access(S, Payload(q, "v1"), "ok"))

\* a hit of get_llm_response(query) records one access on the entry keyed by
\* the matched stored query text and writes the payload-map file alone
AccessRecorded(S, query, w) ==
    \A c \in {get_cached_response(S, query, TRUE, w)} :
        c.cache_hit =>
            \A i \in {CHOOSE i \in 1..Len(S.cache_embeddings) : IsEarliestMaximum(S, query, i)} :
                \A k \in {generate_cache_key(S.cache_queries[i])} :
                    /\ c.S.cache_data =
                          [S.cache_data EXCEPT ![k].access_count = @ + 1,
                                               ![k].last_accessed = "now"]
                    /\ c.S.cache_queries = S.cache_queries
                    /\ c.S.cache_embeddings = S.cache_embeddings
                    /\ c.S.cache_vectors_file = S.cache_vectors_file
                    /\ w = "ok" => c.S.cache_file = json_dump(c.S.cache_data)
                    /\ w = "json_open_fails" => c.S.cache_file = S.cache_file

InsertStampsOne(S, query, val, ok, sv) ==
    S.cache_data[generate_cache_key(query)] = None =>
        set(S, query, Payload(query, val), ok, sv)
            .cache_data[generate_cache_key(query)].access_count = 1

\* C22: an insert stamps the new entry with access_count = 1, and each
\* get_llm_response call that returns a hit increases the access_count of
\* the matched stored entry (keyed by the stored query text, not the incoming
\* query) by exactly 1, sets its last_accessed, rewrites only the payload-map
\* file and leaves the vector file and the index unchanged.
C22_AccessRecording ==
    \A S \in {Store("llm")} :
        /\ \A q \in Queries, w \in WriteOutcomes : AccessRecorded(S, q, w)
        /\ \A q \in Queries, v \in Values, ok \in BOOLEAN, sv \in SaveOutcomes :
              InsertStampsOne(S, q, v, ok, sv)

\* the response layer holds qa alone, accessed once more since its insert; a
\* hit has been returned, and a lookup of qb hits and records the access on qa
C22_Witness ==
    \A S \in {Store("llm")} :
        /\ S.cache_queries = <<"qa">>
        /\ S.cache_data["md5_b"] = None
        /\ S.cache_data["md5_a"] # None
        /\ S.cache_data["md5_a"].access_count = 2
        /\ S.cache_data["md5_a"].last_accessed = "now"
        /\ S.hits > 0
        /\ \A c \in {get_cached_response(S, "qb", TRUE, "ok")} :
              /\ c.cache_hit
              /\ c.S.cache_data["md5_a"].access_count = 3
              /\ c.S.cache_data["md5_b"] = None

\* the i-th embedding of store s is the embedding of its i-th query text
Aligned(s) ==
    /\ Len(cache_queries[s]) = Len(cache_embeddings[s])
    /\ \A i \in 1..Len(cache_queries[s]) :
          cache_embeddings[s][i] = Embed[cache_queries[s][i]]

IndexExtended(s) ==
    /\ IsPrefix(cache_queries[s], cache_queries'[s])
    /\ IsPrefix(cache_embeddings[s], cache_embeddings'[s])

\* C23: in every reachable state of a single-threaded store the query list
\* and the embedding list have the same length and the i-th embedding is the
\* embedding of the i-th query text, and every call on the store other than
\* clear leaves the index it found as a prefix of the index it leaves.
C23_IndexAppendOnlyAligned ==
    /\ [](\A s \in Stores : Aligned(s))
    /\ [][StoreCall("rag") => IndexExtended("rag")]_vars

\* two entries in insertion order, each with its own embedding, both saved
\* in the vector file, on a store that has been asked
C23_Witness ==
    /\ Len(cache_queries["rag"]) = 2
    /\ cache_queries["rag"][1] # cache_queries["rag"][2]
    /\ Aligned("rag")
    /\ cache_vectors_file["rag"].dict.queries = cache_queries["rag"]
    /\ cache_vectors_file["rag"].dict.embeddings = cache_embeddings["rag"]
    /\ total_queries["rag"] > 0

\* C24: once a context payload has been inserted, no later sequence of
\* lookups, context-layer hits served through FinanceRAG.retrieve, or inserts
\* changes any of its fields other than access_count and last_accessed: the
\* stored token_stats are those of the insertion (cache_hit False), and a
\* later hit returns them.
C24_PayloadContentStable ==
    /\ \A k \in Keys :
          cache_data["rag"][k] # None => cache_data["rag"][k].cache_hit = FALSE
    /\ \A q \in Queries :
          \A r \in {get(Store("rag"), q, TRUE)} :
              r.hit => r.data.cache_hit = FALSE

InIndex(S, query) == \E i \in 1..Len(S.cache_queries) : S.cache_queries[i] = query

\* C25: a store constructed from a disk state whose vector index lacks the
\* entry of some payload key misses on that query until it is re-inserted,
\* and re-inserting it with set(q, p), the embedding provider working, makes
\* the next get(q) return a hit.
C25_MissUntilRepopulated ==
    \A s \in Stores :
        \A F \in {Fresh(Store(s))} :
            \A q \in Queries :
                (F.cache_data[generate_cache_key(q)] # None /\ ~InIndex(F, q)) =>
                    /\ ~get(F, q, TRUE).hit
                    /\ \A v \in Values :
                          get(set(F, q, Payload(q, v), TRUE, "ok"), q, TRUE).hit

InVectorFile(S, query) ==
    \E i \in 1..Len(S.cache_vectors_file.dict.queries) :
        S.cache_vectors_file.dict.queries[i] = query

\* the disk left by a save of query that died between its two writes: the
\* payload-map file holds the key and the vector file has no entry for it
TornSave(D, query) ==
    /\ D.cache_file.st = "ok"
    /\ json_load(D.cache_file)[generate_cache_key(query)] # None
    /\ D.cache_vectors_file.st # "corrupt"
    /\ ~InVectorFile(D, query)

NoneReaches(S, query) ==
    \A i \in 1..Len(S.cache_embeddings) : Similarity(S, query, i) < S.similarity_threshold

\* C26 as stated: a crash between the two writes of _save_cache leaves a
\* payload map with a key that has no entry in the vector file; a store
\* constructed from that disk state loads, and get for that query returns a
\* miss.
C26_TornSaveMisses ==
    \A S \in {Store("rag")} :
        \A q \in Queries, v \in Values :
            S.cache_data[generate_cache_key(q)] = None =>
                \A D \in {set_crashing_in_save(S, q, Payload(q, v))} :
                    /\ TornSave(D, q)
                    /\ \A F \in {Fresh(D)} :
                          /\ F.cache_data = D.cache_data
                          /\ ~get(F, q, TRUE).hit

\* C26 amended: a crash between the two writes of _save_cache leaves a
\* payload map with a key that has no entry in the vector file; a store
\* constructed from that disk state loads, and get for that query never
\* returns the payload of the interrupted insert: it misses when no other
\* stored query reaches the threshold, and otherwise returns the payload of
\* the earliest best-matching other query.
C26_TornSaveNeverServesEntry ==
    \A S \in {Store("rag")} :
        \A q \in Queries, v \in Values :
            S.cache_data[generate_cache_key(q)] = None =>
                \A D \in {set_crashing_in_save(S, q, Payload(q, v))} :
                    /\ TornSave(D, q)
                    /\ \A F \in {Fresh(D)} :
                          /\ F.cache_data = D.cache_data
                          /\ ~InIndex(F, q)
                          /\ \A r \in {get(F, q, TRUE)} :
                                /\ NoneReaches(F, q) => ~r.hit
                                /\ r.hit => /\ r.data.query # q
                                            /\ InIndex(F, r.data.query)
                                            /\ r.data # F.cache_data[generate_cache_key(q)]

\* the store of a process started after a torn save: the payload map holds
\* the key of a query that neither the index nor the vector file holds, next
\* to an entry saved in full, and a get of that query has nothing of its own
\* to return
C26_Witness ==
    \E q \in Queries :
        \A S \in {Store("rag")} :
            /\ TornSave(S, q)
            /\ S.cache_data[generate_cache_key(q)] # None
            /\ ~InIndex(S, q)
            /\ Len(S.cache_queries) = 1
            /\ S = Fresh(S)
            /\ \A r \in {get(S, q, TRUE)} : r.hit => r.data.query # q

OneIndexEntryPerKey(s) ==
    \A q \in Queries :
        cache_data[s][generate_cache_key(q)] # None =>
            Cardinality({i \in 1..Len(cache_queries[s]) : cache_queries[s][i] = q}) = 1

FilesEqualMemory(s) ==
    /\ json_load(cache_file[s]) = cache_data[s]
    /\ cache_vectors_file[s].dict = [queries |-> cache_queries[s],
                                     embeddings |-> cache_embeddings[s]]

BothReturned ==
    /\ AllIdle
    /\ \A t \in Threads : threads[t].outcome = Text("returned")
    /\ \E t1, t2 \in Threads : threads[t1].query # threads[t2].query

\* C27: when two threads call set on the same store concurrently with
\* distinct query texts and no lock, then after both calls have returned the
\* query list and the embedding list are index-aligned, each key has exactly
\* one index entry, and the persisted files equal the in-memory state.
C27_ConcurrentInsertsStayAligned ==
    BothReturned =>
        /\ Aligned("rag")
        /\ OneIndexEntryPerKey("rag")
        /\ FilesEqualMemory("rag")

\* S1 differs from S0 in nothing but the three counters, which record one
\* more query and one more hit or one more miss
OnlyCounted(S0, S1, hit) ==
    S1 = [S0 EXCEPT !.total_queries = @ + 1,
                    !.hits = @ + (IF hit THEN 1 ELSE 0),
                    !.misses = @ + (IF hit THEN 0 ELSE 1)]

EntriesKept(s) ==
    /\ cache_data'[s] = cache_data[s]
    /\ cache_queries'[s] = cache_queries[s]
    /\ cache_embeddings'[s] = cache_embeddings[s]
    /\ cache_file'[s] = cache_file[s]
    /\ cache_vectors_file'[s] = cache_vectors_file[s]

\* C28: SemanticCache.get and TwoLevelCache.get_rag_context change only the
\* three counters: on either store, for every query, whether the embedding
\* call succeeds or raises and whether the lookup hits or misses, the payload
\* map (access_count and last_accessed included), the index and both files
\* are the same after the call as before it.
C28_LookupIsReadOnly ==
    /\ [](\A s \in Stores :
             \A S \in {Store(s)} :
                 \A q \in Queries, ok \in BOOLEAN :
                     \A r \in {get(S, q, ok)} : OnlyCounted(S, r.S, r.hit))
    /\ [][calls'["rag"].get = calls["rag"].get + 1 => EntriesKept("rag")]_vars

\* a store that has answered one hit and one miss, whose entry still counts
\* the single access of its insertion and whose files still hold what the
\* insert saved
C28_Witness ==
    /\ hits["rag"] = 1 /\ misses["rag"] = 1
    /\ calls["rag"].hit = 1 /\ calls["rag"].miss = 1
    /\ \E q \in Queries :
          /\ cache_data["rag"][generate_cache_key(q)] # None
          /\ cache_data["rag"][generate_cache_key(q)].access_count = 1
          /\ get(Store("rag"), q, TRUE).hit
    /\ FilesEqualMemory("rag")
    /\ Len(cache_queries["rag"]) > 0

\* C29: MarketDataCache.get(tool, kwargs) returns the data of the most recent
\* set for the same tool name and keyword arguments, in any argument order,
\* if and only if less than ttl_seconds have elapsed since that set;
\* otherwise it returns None, and an entry found expired by get is removed,
\* so that total_entries in get_stats equals valid_entries + expired_entries.
C29_MarketCacheTtl ==
    /\ \A tool \in Tools, kw \in Kwargs :
          \A r \in {market_cache_get(cache, ttl_seconds, now, tool, kw)} :
              \A last \in {latest[<<tool, Dict(kw)>>]} :
                  /\ IF last # None /\ now - last.at < ttl_seconds
                     THEN r.result = Text(last.data)
                     ELSE r.result = None
                  /\ r.result = None => r.cache[generate_key(tool, kw)] = None
    /\ \A st \in {market_cache_get_stats(cache, ttl_seconds, now)} :
          st.total_entries = st.valid_entries + st.expired_entries

\* a thread that has passed the test of is_running and is inside queue.get
\* or holds a task
Consuming(w) == workers[w].pc \in {"get", "process"}

AtMostOneWorker == Cardinality({w \in Workers : Consuming(w)}) <= 1

\* the tasks processed so far are the first tasks queued, each once, in the
\* order they were queued
ProcessedInOrder == \A i \in 1..Len(processed) : processed[i].id = i

Done(id) == \E i \in 1..Len(processed) : processed[i].id = id

Waiting(id) == \E i \in 1..Len(queue) : queue[i].id = id

\* C30: for any sequence of start, stop, queue_quality_check and
\* queue_performance_update calls at most one worker thread is consuming the
\* queue at any time, the tasks are processed exactly once each in the order
\* they were queued, and while the processor is running every queued task is
\* eventually processed, a task whose processing raised included.
C30_SingleWorkerFifo ==
    /\ [](AtMostOneWorker /\ ProcessedInOrder)
    /\ \A id \in 1..MaxTasks : (is_running /\ Waiting(id)) ~> (Done(id) \/ ~is_running)

====
